---- MODULE Spec2Model ----
(***************************************************************************)
(* Model of src/app.py (BMA Opticas): RUT validation and masking, the      *)
(* loading of the patient ledger, the prescription PDF and the reports     *)
(* screen.                                                                 *)
(*                                                                         *)
(* Text is a sequence of one-character strings.  A Python value is a       *)
(* record [t, v] whose tag t is its type.                                  *)
(***************************************************************************)
EXTENDS Integers, Sequences, FiniteSets, TLC

VARIABLES
    pcRut,        \* position in the RUT run: "inicio", "validado", "enmascarado", "revalidado", "fin"
    rut,          \* the value handed to validar_rut_completo / enmascarar_rut
    valido,       \* what validar_rut_completo(rut) returned
    enmascarado,  \* what enmascarar_rut(rut) returned
    revalidado,   \* what validar_rut_completo returned on its own output
    validoCanon,  \* what validar_rut_completo returned on the grouped spelling of rut
    pcCarga,      \* position in the load run: "inicio", "cargado", "reaplicado"
    archivo,      \* Pacientes.xlsx as the file system presents it
    carga,        \* what cargar_datos returned and showed: [df, errores, avisos, propaga]
    recarga,      \* the reconciliation steps applied to the frame cargar_datos returned
    pcPdf,        \* position in the receipt run: "inicio", "devuelto"
    paciente,     \* the row handed to generar_pdf_receta
    pdf,          \* what generar_pdf_receta left behind: [buffer, temporal, errores]; the buffer holds the draw calls of the document
    pcRep,        \* position in the reports run: "inicio", "mostrado"
    libro,        \* the ledger handed to pantalla_reportes
    filtros,      \* what the widgets of pantalla_reportes return: [rango, busqueda]
    reporte       \* what pantalla_reportes showed: [ofrecidas, mensajes, excepcion]

varsRut == <<pcRut, rut, valido, enmascarado, revalidado, validoCanon>>

varsCarga == <<pcCarga, archivo, carga, recarga>>

varsPdf == <<pcPdf, paciente, pdf>>

varsRep == <<pcRep, libro, filtros, reporte>>

vars == <<varsRut, varsCarga, varsPdf, varsRep>>

SoloRut   == UNCHANGED <<varsCarga, varsPdf, varsRep>>
SoloCarga == UNCHANGED <<varsRut, varsPdf, varsRep>>
SoloPdf   == UNCHANGED <<varsRut, varsCarga, varsRep>>
SoloRep   == UNCHANGED <<varsRut, varsCarga, varsPdf>>

----------------------------------------------------------------------------
(* Python values *)

PyStr(s)  == [t |-> "str", v |-> s]
PyBool(b) == [t |-> "bool", v |-> b]
NaN       == [t |-> "nan", v |-> 0]
Pendiente == [t |-> "pendiente", v |-> 0]

Digitos == {"0", "1", "2", "3", "4", "5", "6", "7", "8", "9"}

\* int(c) for a one-character string
DigitVal(c) ==
    CASE c = "0" -> 0 [] c = "1" -> 1 [] c = "2" -> 2 [] c = "3" -> 3
      [] c = "4" -> 4 [] c = "5" -> 5 [] c = "6" -> 6 [] c = "7" -> 7
      [] c = "8" -> 8 [] c = "9" -> 9

DigitChar(n) == CHOOSE c \in Digitos : DigitVal(c) = n

\* str(n) for a natural number
RECURSIVE StrNat(_)
StrNat(n) == IF n < 10 THEN <<DigitChar(n)>>
             ELSE Append(StrNat(n \div 10), DigitChar(n % 10))

\* str.upper() on one character (the letters that occur in the inputs)
UpperChar(c) == CASE c = "k" -> "K" [] c = "x" -> "X" [] OTHER -> c

Upper(s) == [i \in 1..Len(s) |-> UpperChar(s[i])]

\* str.replace(ch, "")
Quitar(s, ch) == SelectSeq(s, LAMBDA c : c # ch)

Reverso(s) == [i \in 1..Len(s) |-> s[Len(s) + 1 - i]]

----------------------------------------------------------------------------
(* validar_rut_completo *)

\* re.match(r'^[0-9]{7,8}[0-9K]$', s): '$' also matches before a final newline
CoincideNucleo(s, n) ==
    /\ n \in {8, 9}
    /\ \A i \in 1..(n - 1) : s[i] \in Digitos
    /\ s[n] \in Digitos \cup {"K"}

CoincidePatron(s) ==
    \/ CoincideNucleo(s, Len(s))
    \/ (Len(s) >= 1 /\ s[Len(s)] = "\n" /\ CoincideNucleo(s, Len(s) - 1))

\* the weight wraps one step early
SiguienteMultiplo_Corto(multiplo) == IF multiplo < 6 THEN multiplo + 1 ELSE 2

\* multiplo = multiplo + 1 if multiplo < 7 else 2
SiguienteMultiplo(multiplo) == IF multiplo < 7 THEN multiplo + 1 ELSE 2

\* the for loop over reversed(cuerpo): suma += int(c) * multiplo
RECURSIVE SumaRut(_, _, _)
SumaRut(resto, multiplo, suma) ==
    IF resto = <<>> THEN suma
    ELSE SumaRut(Tail(resto), SiguienteMultiplo(multiplo),
                 suma + DigitVal(Head(resto)) * multiplo)

\* str(11 - suma % 11) looked up in {'10': 'K', '11': '0'}
DvEsperado(suma) ==
    LET texto == StrNat(11 - (suma % 11))
    IN  IF texto = <<"1", "0">> THEN <<"K">>
        ELSE IF texto = <<"1", "1">> THEN <<"0">>
        ELSE texto

\* the dots are left in place
LimpiarRut_ConPuntos(s) == Quitar(Upper(s), "-")

\* rut.upper().replace(".", "").replace("-", "")
LimpiarRut(s) == Quitar(Quitar(Upper(s), "."), "-")

validar_rut_completo(x) ==
    IF x.t # "str" THEN FALSE                  \* AttributeError, caught
    ELSE LET limpio == LimpiarRut(x.v)
             cuerpo == SubSeq(limpio, 1, Len(limpio) - 1)
             dv     == limpio[Len(limpio)]
         IN  IF ~CoincidePatron(limpio) THEN FALSE
             ELSE IF \E i \in 1..Len(cuerpo) : cuerpo[i] \notin Digitos
                  THEN FALSE                   \* int(c) raises ValueError, caught
             ELSE <<dv>> = DvEsperado(SumaRut(Reverso(cuerpo), 2, 0))

----------------------------------------------------------------------------
(* enmascarar_rut *)

CuentaDe(s, ch) == Len(SelectSeq(s, LAMBDA c : c = ch))

PosicionDe(s, ch) == CHOOSE i \in 1..Len(s) : s[i] = ch /\ \A j \in 1..(i - 1) : s[j] # ch

enmascarar_rut(x) ==
    IF x.t # "str" THEN PyStr(<<>>)
    ELSE IF CuentaDe(x.v, "-") # 1 THEN x       \* len(partes) != 2
    ELSE LET p      == PosicionDe(x.v, "-")
             cuerpo == SubSeq(x.v, 1, p - 1)
             resto  == SubSeq(x.v, p + 1, Len(x.v))
             oculto == IF Len(cuerpo) > 4
                       THEN SubSeq(cuerpo, 1, Len(cuerpo) - 4) \o <<"*", "*", "*", "*">>
                       ELSE cuerpo
         IN  PyStr(oculto \o <<"-">> \o resto)

----------------------------------------------------------------------------
(* The RUT run: one value is validated, masked, and validated again *)

MinCuerpo == 6
MaxCuerpo == 9

DigitosEntrada == {"1", "9"}

Verificadores == Digitos \cup {"K", "k"}

Formatos == {"plano", "guion", "puntos", "puntosSinGuion", "salto", "basura"}

Cuerpos == UNION {[1..n -> DigitosEntrada] : n \in MinCuerpo..MaxCuerpo}

\* the body grouped in thousands: 12345678 -> 12.345.678
RECURSIVE Agrupar(_)
Agrupar(b) ==
    IF Len(b) <= 3 THEN b
    ELSE Agrupar(SubSeq(b, 1, Len(b) - 3)) \o <<".">> \o SubSeq(b, Len(b) - 2, Len(b))

Escribir(b, d, f) ==
    CASE f = "plano"          -> b \o <<d>>
      [] f = "guion"          -> b \o <<"-", d>>
      [] f = "puntos"         -> Agrupar(b) \o <<"-", d>>
      [] f = "puntosSinGuion" -> Agrupar(b) \o <<d>>
      [] f = "salto"          -> b \o <<"-", d, "\n">>
      [] f = "basura"         -> b \o <<"x", d>>

RutConocido == <<"1", "2", ".", "3", "4", "5", ".", "6", "7", "8", "-", "5">>

EntradasRut ==
    {PyStr(Escribir(b, d, f)) : b \in Cuerpos, d \in Verificadores, f \in Formatos}
        \cup {PyStr(RutConocido), PyStr(<<>>), PyStr(<<"-">>), PyBool(TRUE), NaN}

\* the grouped spelling of the same RUT: grouped body, dash, upper-case check character
TokenDe(s) == SelectSeq(Upper(s), LAMBDA c : c \notin {".", "-"})

Canonico(s) ==
    LET tok == TokenDe(s)
    IN  Agrupar(SubSeq(tok, 1, Len(tok) - 1)) \o <<"-", tok[Len(tok)]>>

InitRut ==
    /\ pcRut = "inicio"
    /\ rut \in EntradasRut
    /\ valido = Pendiente
    /\ enmascarado = Pendiente
    /\ revalidado = Pendiente
    /\ validoCanon = Pendiente
    \* the other screens are idle in this run
    /\ pcCarga = "reposo"
    /\ archivo = Pendiente
    /\ carga = Pendiente
    /\ recarga = Pendiente
    /\ pcPdf = "reposo"
    /\ paciente = Pendiente
    /\ pdf = Pendiente
    /\ pcRep = "reposo"
    /\ libro = Pendiente
    /\ filtros = Pendiente
    /\ reporte = Pendiente

Validar ==
    /\ pcRut = "inicio"
    /\ valido' = PyBool(validar_rut_completo(rut))
    /\ pcRut' = "validado"
    /\ UNCHANGED <<rut, enmascarado, revalidado, validoCanon>>
    /\ SoloRut

Enmascarar ==
    /\ pcRut = "validado"
    /\ enmascarado' = enmascarar_rut(rut)
    /\ pcRut' = "enmascarado"
    /\ UNCHANGED <<rut, valido, revalidado, validoCanon>>
    /\ SoloRut

\* the validator applied to what it returned
Revalidar ==
    /\ pcRut = "enmascarado"
    /\ revalidado' = PyBool(validar_rut_completo(valido))
    /\ pcRut' = "revalidado"
    /\ UNCHANGED <<rut, valido, enmascarado, validoCanon>>
    /\ SoloRut

\* the validator applied to the grouped spelling of the same RUT
ValidarCanonico ==
    /\ pcRut = "revalidado"
    /\ rut.t = "str"
    /\ Len(TokenDe(rut.v)) >= 1
    /\ validoCanon' = PyBool(validar_rut_completo(PyStr(Canonico(rut.v))))
    /\ pcRut' = "fin"
    /\ UNCHANGED <<rut, valido, enmascarado, revalidado>>
    /\ SoloRut

NextRut == Validar \/ Enmascarar \/ Revalidar \/ ValidarCanonico

----------------------------------------------------------------------------
(* Tables.  A DataFrame is [cols, dtypes, filas]: the column labels, the     *)
(* dtype of each column and the rows, each row a sequence of cells in column *)
(* order.  Accented letters of the column names are written unaccented.      *)

Num(n)   == [t |-> "num", v |-> n]
Ts(d)    == [t |-> "ts", v |-> d]        \* a naive Timestamp, d its day number
TsUTC(d) == [t |-> "tsutc", v |-> d]     \* a Timestamp localized to UTC
NaT      == [t |-> "nat", v |-> 0]

N_Rut          == <<"R", "u", "t">>
N_RutValido    == <<"R", "u", "t", "_", "V", "a", "l", "i", "d", "o">>
N_UltimaVisita == <<"U", "l", "t", "i", "m", "a", "_", "v", "i", "s", "i", "t", "a">>
N_Valor        == <<"V", "a", "l", "o", "r">>
N_Nombre       == <<"N", "o", "m", "b", "r", "e">>
N_Edad         == <<"E", "d", "a", "d">>
N_Telefono     == <<"T", "e", "l", "e", "f", "o", "n", "o">>
N_TipoLente    == <<"T", "i", "p", "o", "_", "L", "e", "n", "t", "e">>
N_Armazon      == <<"A", "r", "m", "a", "z", "o", "n">>

COLUMNAS_OPTICAS ==
    << <<"O", "D", "_", "S", "P", "H">>, <<"O", "D", "_", "C", "Y", "L">>,
       <<"O", "D", "_", "E", "J", "E">>, <<"O", "I", "_", "S", "P", "H">>,
       <<"O", "I", "_", "C", "Y", "L">>, <<"O", "I", "_", "E", "J", "E">>,
       <<"D", "P", "_", "L", "e", "j", "o", "s">>, <<"D", "P", "_", "C", "E", "R", "C", "A">>,
       <<"A", "D", "D">> >>

MIME_VALIDOS ==
    {"application/vnd.ms-excel",
     "application/vnd.openxmlformats-officedocument.spreadsheetml.sheet"}

\* the columns pantalla_pacientes selects from the ledger
columnas == <<N_Nombre, N_Rut, N_Edad, N_Telefono, N_UltimaVisita, N_TipoLente, N_Armazon>>

Rango(seq) == {seq[i] : i \in 1..Len(seq)}

\* pd.DataFrame()
DataFrameVacio == [cols |-> <<>>, dtypes |-> <<>>, filas |-> <<>>]

Tiene(df, nombre) == \E i \in 1..Len(df.cols) : df.cols[i] = PyStr(nombre)

Indice(df, nombre) == CHOOSE i \in 1..Len(df.cols) : df.cols[i] = PyStr(nombre)

Columna(df, nombre) == [r \in 1..Len(df.filas) |-> df.filas[r][Indice(df, nombre)]]

\* df[nombre] = valores: replaces the column in place, or appends it as the last one
Asignar(df, nombre, dtype, valores) ==
    IF Tiene(df, nombre)
    THEN LET i == Indice(df, nombre)
         IN  [df EXCEPT !.dtypes[i] = dtype,
                        !.filas = [r \in 1..Len(df.filas) |-> [df.filas[r] EXCEPT ![i] = valores[r]]]]
    ELSE [cols   |-> Append(df.cols, PyStr(nombre)),
          dtypes |-> Append(df.dtypes, dtype),
          filas  |-> [r \in 1..Len(df.filas) |-> Append(df.filas[r], valores[r])]]

Blancos == {" ", "\t", "\n"}

\* str.strip()
RECURSIVE QuitarBlancosIzq(_)
QuitarBlancosIzq(s) ==
    IF s # <<>> /\ Head(s) \in Blancos THEN QuitarBlancosIzq(Tail(s)) ELSE s

Strip(s) == Reverso(QuitarBlancosIzq(Reverso(QuitarBlancosIzq(s))))

EsNulo(c) == c.t \in {"nan", "nat"}

----------------------------------------------------------------------------
(* es_excel_valido and the steps of cargar_datos *)

\* the content type is not looked at
es_excel_valido_Siempre(a) == TRUE

\* magic.from_file raising is caught and answered False
es_excel_valido(a) ==
    IF a.mime = "ERROR" THEN FALSE ELSE a.mime \in MIME_VALIDOS

\* the dtype pandas infers for a column it has read
DtypeLeido(celdas) ==
    IF celdas = <<>> THEN "object"
    ELSE IF \A i \in 1..Len(celdas) : celdas[i].t = "num" THEN "int64"
    ELSE IF \A i \in 1..Len(celdas) : celdas[i].t \in {"num", "nan"} THEN "float64"
    ELSE IF /\ \A i \in 1..Len(celdas) : celdas[i].t \in {"ts", "nan"}
            /\ \E i \in 1..Len(celdas) : celdas[i].t = "ts"
         THEN "datetime64[ns]"
    ELSE "object"

Bien(df, avisos)  == [exc |-> FALSE, df |-> df, avisos |-> avisos]
Falla(avisos)     == [exc |-> TRUE, df |-> DataFrameVacio, avisos |-> avisos]

\* pd.read_excel("Pacientes.xlsx", sheet_name="Sheet1")
read_excel(a) ==
    IF ~a.hoja.legible THEN Falla(0)
    ELSE LET t == a.hoja
         IN  Bien([cols   |-> t.cols,
                   dtypes |-> [i \in 1..Len(t.cols) |->
                                 DtypeLeido([r \in 1..Len(t.filas) |-> t.filas[r][i]])],
                   filas  |-> t.filas], 0)

\* df.columns = df.columns.str.strip(): the .str accessor refuses an index
\* that holds only numbers; in a mixed index a non-text label becomes NaN
PasoColumnas(df) ==
    IF df.cols # <<>> /\ \A i \in 1..Len(df.cols) : df.cols[i].t = "num"
    THEN Falla(0)
    ELSE Bien([df EXCEPT !.cols = [i \in 1..Len(df.cols) |->
                  IF df.cols[i].t = "str" THEN PyStr(Strip(df.cols[i].v)) ELSE NaN]], 0)

\* df['Rut_Valido'] = df['Rut'].apply(validar_rut_completo), and the warning
PasoRut(df) ==
    IF ~Tiene(df, N_Rut) THEN Bien(df, 0)
    ELSE LET ruts    == Columna(df, N_Rut)
             marcas  == [r \in 1..Len(ruts) |-> PyBool(validar_rut_completo(ruts[r]))]
             malos   == Cardinality({r \in 1..Len(ruts) : marcas[r] = PyBool(FALSE)})
         IN  Bien(Asignar(df, N_RutValido, "bool", marcas), malos)

\* the day number of a text of the form YYYY-MM-DD, or -1
DiaDeTexto(s) ==
    IF /\ Len(s) = 10
       /\ s[5] = "-" /\ s[8] = "-"
       /\ \A i \in {1, 2, 3, 4, 6, 7, 9, 10} : s[i] \in Digitos
    THEN LET anio == 1000 * DigitVal(s[1]) + 100 * DigitVal(s[2]) + 10 * DigitVal(s[3]) + DigitVal(s[4])
             mes  == 10 * DigitVal(s[6]) + DigitVal(s[7])
             dia  == 10 * DigitVal(s[9]) + DigitVal(s[10])
         IN  IF mes \in 1..12 /\ dia \in 1..31
             THEN (anio * 12 + (mes - 1)) * 31 + (dia - 1)
             ELSE -1
    ELSE -1

\* the end of a text that gives a time of day in UTC, as in 2024-01-01T00:00Z
SufijoUTC == <<"T", "0", "0", ":", "0", "0", "Z">>

EsTextoUTC(s) ==
    /\ Len(s) = 10 + Len(SufijoUTC)
    /\ SubSeq(s, 11, Len(s)) = SufijoUTC
    /\ DiaDeTexto(SubSeq(s, 1, 10)) >= 0

\* pd.to_datetime(cell, errors='coerce'): a text that names its zone is
\* parsed to a tz-aware value
AFecha(c) ==
    CASE c.t \in {"ts", "tsutc"} -> c
      [] c.t = "str" -> IF DiaDeTexto(c.v) >= 0 THEN Ts(DiaDeTexto(c.v))
                        ELSE IF EsTextoUTC(c.v) THEN TsUTC(DiaDeTexto(SubSeq(c.v, 1, 10)))
                        ELSE NaT
      [] OTHER -> NaT

\* .dt.tz_localize(timezone.utc) refuses a column that is already tz-aware.
\* A column that mixes tz-aware and naive values is, depending on the pandas
\* installed, refused or turned tz-aware (mezcla), or parsed with the format
\* of the naive values, its tz-aware texts coerced to NaT (~mezcla).
PasoFecha(df, avisos, mezcla) ==
    IF ~Tiene(df, N_UltimaVisita) THEN Bien(df, avisos)
    ELSE LET i       == Indice(df, N_UltimaVisita)
             fechas  == [r \in 1..Len(df.filas) |-> AFecha(df.filas[r][i])]
             conZona == \E r \in 1..Len(fechas) : fechas[r].t = "tsutc"
             sinZona == \E r \in 1..Len(fechas) : fechas[r].t = "ts"
         IN  IF df.dtypes[i] = "datetime64[ns, UTC]"
             THEN Falla(avisos)                    \* TypeError: Already tz-aware
             ELSE IF conZona /\ (~sinZona \/ mezcla)
             THEN Falla(avisos)
             ELSE Bien(Asignar(df, N_UltimaVisita, "datetime64[ns, UTC]",
                               [r \in 1..Len(fechas) |->
                                   IF fechas[r].t = "ts" THEN TsUTC(fechas[r].v) ELSE NaT]),
                       avisos)

\* int(s) for a text of digits
RECURSIVE NatDeTexto(_)
NatDeTexto(s) ==
    IF s = <<>> THEN 0
    ELSE 10 * NatDeTexto(SubSeq(s, 1, Len(s) - 1)) + DigitVal(s[Len(s)])

\* pd.to_numeric(cell, errors='coerce')
ANumero(c) ==
    CASE c.t = "num" -> c
      [] c.t = "str" -> LET s == Strip(c.v)
                        IN  IF s # <<>> /\ \A i \in 1..Len(s) : s[i] \in Digitos
                            THEN Num(NatDeTexto(s)) ELSE NaN
      [] OTHER -> NaN

\* pd.to_numeric(df['Valor'], errors='coerce').fillna(0)
PasoValor(df, avisos) ==
    IF ~Tiene(df, N_Valor) THEN Bien(df, avisos)
    ELSE LET i       == Indice(df, N_Valor)
             nums    == [r \in 1..Len(df.filas) |-> ANumero(df.filas[r][i])]
             dtype   == IF df.dtypes[i] \in {"int64", "float64"} THEN df.dtypes[i]
                        ELSE IF \E r \in 1..Len(nums) : nums[r].t = "nan" THEN "float64"
                        ELSE IF nums = <<>> THEN "object"
                        ELSE "int64"
         IN  Bien(Asignar(df, N_Valor, dtype,
                          [r \in 1..Len(nums) |-> IF nums[r].t = "nan" THEN Num(0) ELSE nums[r]]),
                  avisos)

\* str(x) for a cell of a column of the given dtype
TextoDe(c, dtype) ==
    CASE c.t = "str" -> c.v
      [] c.t = "num" -> StrNat(c.v) \o (IF dtype = "float64" THEN <<".", "0">> ELSE <<>>)
      [] c.t = "bool" -> IF c.v THEN <<"T", "r", "u", "e">> ELSE <<"F", "a", "l", "s", "e">>
      [] c.t = "nan" -> <<"n", "a", "n">>
      [] OTHER -> <<"N", "a", "T">>

\* df[col].fillna('').apply(lambda x: str(x).strip())
LimpiarOptica(c, dtype) ==
    IF EsNulo(c) THEN PyStr(Strip(<<>>)) ELSE PyStr(Strip(TextoDe(c, dtype)))

RECURSIVE PasoOpticas(_, _)
PasoOpticas(df, k) ==
    IF k > Len(COLUMNAS_OPTICAS) THEN df
    ELSE LET col == COLUMNAS_OPTICAS[k]
         IN  IF ~Tiene(df, col) THEN PasoOpticas(df, k + 1)
             ELSE LET i == Indice(df, col)
                  IN  PasoOpticas(
                        Asignar(df, col, "object",
                                [r \in 1..Len(df.filas) |-> LimpiarOptica(df.filas[r][i], df.dtypes[i])]),
                        k + 1)

\* lines 91-112 of cargar_datos, in order; the first step that raises ends them
Reconciliar(df, mezcla) ==
    LET a == PasoColumnas(df)
    IN  IF a.exc THEN a
        ELSE LET b == PasoRut(a.df)
             IN  LET c == PasoFecha(b.df, b.avisos, mezcla)
                 IN  IF c.exc THEN c
                     ELSE LET d == PasoValor(c.df, c.avisos)
                          IN  Bien(PasoOpticas(d.df, 1), d.avisos)

\* except Exception: st.error(...); return pd.DataFrame()
ManejarError(avisos) ==
    [df |-> DataFrameVacio, errores |-> <<"error critico">>, avisos |-> avisos, propaga |-> FALSE]

cargar_datos(a, mezcla) ==
    IF ~a.existe
    THEN [df |-> DataFrameVacio, errores |-> <<"no encontrado">>, avisos |-> 0, propaga |-> FALSE]
    ELSE IF ~es_excel_valido(a)
    THEN [df |-> DataFrameVacio, errores |-> <<"no es excel">>, avisos |-> 0, propaga |-> FALSE]
    ELSE LET leido == read_excel(a)
         IN  IF leido.exc THEN ManejarError(0)
             ELSE LET r == Reconciliar(leido.df, mezcla)
                  IN  IF r.exc THEN ManejarError(r.avisos)
                      ELSE [df |-> r.df, errores |-> <<>>, avisos |-> r.avisos, propaga |-> FALSE]

\* lines 91-112 run, inside the same try, on a frame already in memory
reconciliar_de_nuevo(df, mezcla) ==
    LET r == Reconciliar(df, mezcla)
    IN  IF r.exc THEN ManejarError(r.avisos)
        ELSE [df |-> r.df, errores |-> <<>>, avisos |-> r.avisos, propaga |-> FALSE]

----------------------------------------------------------------------------
(* The load run: a store file is loaded, then the steps run on their result *)

MaxFilas == 2

\* the columns a stored sheet may hold, in sheet order; the header of Valor
\* is stored with blanks around it
EncabezadosEntrada == <<N_Rut, N_UltimaVisita, <<" ">> \o N_Valor \o <<" ">>, COLUMNAS_OPTICAS[1]>>

DominioEntrada ==
    << {PyStr(RutConocido), NaN},
       {Ts(750000), PyStr(<<"s", "/", "f">>), NaN,
        PyStr(<<"2", "0", "2", "4", "-", "0", "1", "-", "0", "1">> \o SufijoUTC)},
       {Num(50), PyStr(<<"a", "b", "c">>)},
       {NaN, PyStr(<<" ", "1", " ">>), Num(2)} >>

CeldasEntrada == UNION Rango(DominioEntrada)

EnOrden(S) ==
    CHOOSE q \in [1..Cardinality(S) -> S] :
        \A i, j \in 1..Cardinality(S) : i < j => q[i] < q[j]

FilasEntrada(q) ==
    {f \in [1..Len(q) -> CeldasEntrada] : \A j \in 1..Len(q) : f[j] \in DominioEntrada[q[j]]}

\* the sheet with the columns q and the rows fs
TablaEntrada(q, fs) ==
    [legible |-> TRUE,
     cols    |-> [j \in 1..Len(q) |-> PyStr(EncabezadosEntrada[q[j]])],
     filas   |-> fs]

HojaIlegible == [legible |-> FALSE, cols |-> <<>>, filas |-> <<>>]

\* a sheet whose header row holds only numbers
HojaNumerica == [legible |-> TRUE, cols |-> <<Num(1), Num(2)>>, filas |-> << <<Num(50), NaN>> >>]

MimesEntrada == MIME_VALIDOS \cup {"text/plain", "ERROR"}

\* the store is absent, or present with some content type and some sheet
ArchivoEntrada(a) ==
    \/ a = [existe |-> FALSE, mime |-> "ERROR", hoja |-> HojaIlegible]
    \/ \E m \in MimesEntrada :
          \/ \E h \in {HojaIlegible, HojaNumerica} : a = [existe |-> TRUE, mime |-> m, hoja |-> h]
          \/ \E S \in SUBSET (1..Len(EncabezadosEntrada)), n \in 0..MaxFilas :
                \E fs \in [1..n -> FilasEntrada(EnOrden(S))] :
                    a = [existe |-> TRUE, mime |-> m, hoja |-> TablaEntrada(EnOrden(S), fs)]

InitCarga ==
    /\ pcCarga = "inicio"
    /\ ArchivoEntrada(archivo)
    /\ carga = Pendiente
    /\ recarga = Pendiente
    \* the other screens are idle in this run
    /\ pcRut = "reposo"
    /\ rut = Pendiente
    /\ valido = Pendiente
    /\ enmascarado = Pendiente
    /\ revalidado = Pendiente
    /\ validoCanon = Pendiente
    /\ pcPdf = "reposo"
    /\ paciente = Pendiente
    /\ pdf = Pendiente
    /\ pcRep = "reposo"
    /\ libro = Pendiente
    /\ filtros = Pendiente
    /\ reporte = Pendiente

CargarDatos ==
    /\ pcCarga = "inicio"
    /\ \E mezcla \in BOOLEAN : carga' = cargar_datos(archivo, mezcla)
    /\ pcCarga' = "cargado"
    /\ UNCHANGED <<archivo, recarga>>
    /\ SoloCarga

Reaplicar ==
    /\ pcCarga = "cargado"
    /\ carga.errores = <<>>
    /\ \E mezcla \in BOOLEAN : recarga' = reconciliar_de_nuevo(carga.df, mezcla)
    /\ pcCarga' = "reaplicado"
    /\ UNCHANGED <<archivo, carga>>
    /\ SoloCarga

NextCarga == CargarDatos \/ Reaplicar

----------------------------------------------------------------------------
(* generar_pdf_receta *)

\* html.escape(s), quote=True
EscapeChar(c) ==
    CASE c = "&"  -> <<"&", "a", "m", "p", ";">>
      [] c = "<"  -> <<"&", "l", "t", ";">>
      [] c = ">"  -> <<"&", "g", "t", ";">>
      [] c = "\"" -> <<"&", "q", "u", "o", "t", ";">>
      [] c = "'"  -> <<"&", "#", "x", "2", "7", ";">>
      [] OTHER    -> <<c>>

RECURSIVE escape(_)
escape(s) == IF s = <<>> THEN <<>> ELSE EscapeChar(Head(s)) \o escape(Tail(s))

\* str(x) for a value taken from the row
str(x) == TextoDe(x, "object")

\* one c.drawString (or c.setTitle): the literal text of the call, the key of
\* the row it interpolates ("" when none), and the interpolated text
Trazo(literal, campo, valor) == [literal |-> literal, campo |-> campo, valor |-> valor]

\* the draw calls of lines 132-181, in order
Dibujar(p) ==
    << Trazo("Receta Optica - ", "Nombre", escape(str(p.Nombre))),
       Trazo("BMA Opticas - Receta Optica", "", <<>>),
       Trazo("Paciente: ", "Nombre", escape(str(p.Nombre))),
       Trazo("RUT: ", "Rut", enmascarar_rut(p.Rut).v),
       Trazo("Fecha: ", "", <<>>),
       Trazo("Prescripcion Optica:", "", <<>>),
       Trazo("Parametro", "", <<>>),
       Trazo("Ojo Derecho (OD)", "", <<>>),
       Trazo("Ojo Izquierdo (OI)", "", <<>>),
       Trazo("ESF", "", <<>>),
       Trazo("", "OD_SPH", str(p.OD_SPH)),
       Trazo("", "OI_SPH", str(p.OI_SPH)),
       Trazo("CIL", "", <<>>),
       Trazo("", "OD_CYL", str(p.OD_CYL)),
       Trazo("", "OI_CYL", str(p.OI_CYL)),
       Trazo("EJE", "", <<>>),
       Trazo("", "OD_EJE", str(p.OD_EJE)),
       Trazo("", "OI_EJE", str(p.OI_EJE)),
       Trazo("Adicionales:", "", <<>>),
       Trazo("DP Lejos: ", "DP_Lejos", escape(str(p.DP_Lejos))),
       Trazo("DP Cerca: ", "DP_CERCA", escape(str(p.DP_CERCA))),
       Trazo("ADD: ", "ADD", escape(str(p.ADD))),
       Trazo("Firma del Optico", "", <<>>) >>

\* the steps of the try block that can raise, in order: building and drawing
\* on the canvas, c.save() (which creates temp_<uuid>.pdf), opening and
\* reading the file back, os.remove
PuntosDeFalla == {"dibujar", "guardar", "leer", "borrar"}

\* falla: the step that raises ("ninguna" when none does); creado: whether
\* c.save() had created the file when it raised
generar_pdf_receta(p, falla, creado) ==
    LET existeTemporal ==
            CASE falla = "dibujar" -> FALSE
              [] falla = "guardar" -> creado
              [] falla = "leer"    -> TRUE
              [] falla = "borrar"  -> TRUE
              [] OTHER             -> FALSE          \* os.remove(filename)
    IN  IF falla = "ninguna"
        THEN [buffer |-> Dibujar(p), temporal |-> existeTemporal, errores |-> <<>>]
        ELSE \* except Exception: st.error(...); return BytesIO()
             [buffer |-> <<>>, temporal |-> existeTemporal, errores |-> <<"error pdf">>]

----------------------------------------------------------------------------
(* The receipt run *)

CamposReceta ==
    {"Nombre", "Rut", "OD_SPH", "OD_CYL", "OD_EJE", "OI_SPH", "OI_CYL", "OI_EJE",
     "DP_Lejos", "DP_CERCA", "ADD"}

TextosEntrada == {PyStr(<<"1">>), PyStr(<<"<", "b", ">">>)}

ValoresEntrada(campo) ==
    CASE campo = "Nombre" -> {PyStr(<<"A", "n", "a">>), PyStr(<<"A", "&", "B">>)}
      [] campo = "Rut"    -> {PyStr(RutConocido), PyStr(<<"1", "2", "3", "4", "5", "6", "7", "8", "5">>)}
      [] OTHER            -> TextosEntrada

PacientesEntrada ==
    {[c \in CamposReceta |-> IF c = "Nombre" THEN n ELSE IF c = "Rut" THEN r ELSE o[c]] :
        n \in ValoresEntrada("Nombre"), r \in ValoresEntrada("Rut"),
        o \in [CamposReceta \ {"Nombre", "Rut"} -> TextosEntrada]}

InitPdf ==
    /\ pcPdf = "inicio"
    /\ paciente \in PacientesEntrada
    /\ pdf = Pendiente
    \* the other screens are idle in this run
    /\ pcRut = "reposo"
    /\ rut = Pendiente
    /\ valido = Pendiente
    /\ enmascarado = Pendiente
    /\ revalidado = Pendiente
    /\ validoCanon = Pendiente
    /\ pcCarga = "reposo"
    /\ archivo = Pendiente
    /\ carga = Pendiente
    /\ recarga = Pendiente
    /\ pcRep = "reposo"
    /\ libro = Pendiente
    /\ filtros = Pendiente
    /\ reporte = Pendiente

GenerarPdf ==
    /\ pcPdf = "inicio"
    /\ \E falla \in PuntosDeFalla \cup {"ninguna"}, creado \in BOOLEAN :
           pdf' = generar_pdf_receta(paciente, falla, creado)
    /\ pcPdf' = "devuelto"
    /\ UNCHANGED paciente
    /\ SoloPdf

NextPdf == GenerarPdf

----------------------------------------------------------------------------
(* pantalla_reportes: the prescriptions section *)

\* df.empty
EstaVacio(df) == df.cols = <<>> \/ df.filas = <<>>

Celda(df, r, nombre) == df.filas[r][Indice(df, nombre)]

\* str.lower() on one character (the letters that occur in the inputs)
LowerChar(c) == CASE c = "K" -> "k" [] c = "A" -> "a" [] OTHER -> c

Lower(s) == [i \in 1..Len(s) |-> LowerChar(s[i])]

\* Series.str.contains(patron, case=False, na=False) on one cell
Contiene(c, patron) ==
    /\ c.t = "str"
    /\ \E i \in 0..(Len(c.v) - Len(patron)) :
           Lower(SubSeq(c.v, i + 1, i + Len(patron))) = Lower(patron)

\* the rows of df, in order, that satisfy cond
RECURSIVE FilasQue(_, _, _)
FilasQue(df, cond(_), r) ==
    IF r > Len(df.filas) THEN <<>>
    ELSE (IF cond(r) THEN <<r>> ELSE <<>>) \o FilasQue(df, cond, r + 1)

\* df_reportes: the rows inside the chosen range of dates (a comparison with
\* NaT is false), or every row when the widget returned a single date
EnRango(df, rango, r) ==
    \/ rango.tipo = "uno"
    \/ /\ rango.tipo = "par"
       /\ Celda(df, r, N_UltimaVisita).t = "tsutc"
       /\ Celda(df, r, N_UltimaVisita).v >= rango.desde
       /\ Celda(df, r, N_UltimaVisita).v <= rango.hasta

\* df_reportes[COLUMNAS_OPTICAS[:6]].notna().any(axis=1)
has_optica_data(df, r) ==
    \E k \in 1..6 : ~EsNulo(Celda(df, r, COLUMNAS_OPTICAS[k]))

\* the for loop over df_recetas.iterrows(): each row gets an expander and a
\* "Generar PDF" button keyed by its Rut; strftime refuses NaT, and st.button
\* refuses a key already used in the same run
RECURSIVE MostrarRecetas(_, _, _, _, _)
MostrarRecetas(df, filas, k, ofrecidas, claves) ==
    IF k > Len(filas) THEN [ofrecidas |-> ofrecidas, excepcion |-> FALSE]
    ELSE LET r     == filas[k]
             clave == str(Celda(df, r, N_Rut))
         IN  IF Celda(df, r, N_UltimaVisita).t # "tsutc"
             THEN [ofrecidas |-> ofrecidas, excepcion |-> TRUE]
             ELSE IF clave \in claves
             THEN [ofrecidas |-> ofrecidas, excepcion |-> TRUE]
             ELSE MostrarRecetas(df, filas, k + 1, Append(ofrecidas, r), claves \cup {clave})

ColumnasDeReportes ==
    {N_UltimaVisita, N_Valor, N_Nombre, N_Rut} \cup {COLUMNAS_OPTICAS[k] : k \in 1..6}

\* f: what the widgets return; sinFechas: whether the date widget raises when
\* the ledger holds no date at all
pantalla_reportes(df, f, sinFechas) ==
    IF EstaVacio(df)
    THEN [ofrecidas |-> <<>>, mensajes |-> <<"no hay datos">>, excepcion |-> FALSE]
    ELSE IF \E c \in ColumnasDeReportes : ~Tiene(df, c)
    THEN [ofrecidas |-> <<>>, mensajes |-> <<>>, excepcion |-> TRUE]       \* KeyError
    ELSE IF (\A r \in 1..Len(df.filas) : Celda(df, r, N_UltimaVisita).t # "tsutc") /\ sinFechas
    THEN [ofrecidas |-> <<>>, mensajes |-> <<>>, excepcion |-> TRUE]
    ELSE LET enRango(r)   == EnRango(df, f.rango, r)
             conOptica(r) == enRango(r) /\ has_optica_data(df, r)
             buscada(r)   == /\ conOptica(r)
                             /\ (f.busqueda # <<>> =>
                                    \/ Contiene(Celda(df, r, N_Nombre), f.busqueda)
                                    \/ Contiene(Celda(df, r, N_Rut), f.busqueda))
             df_recetas   == FilasQue(df, conOptica, 1)
         IN  IF df_recetas = <<>>
             THEN [ofrecidas |-> <<>>, mensajes |-> <<"no hay recetas">>, excepcion |-> FALSE]
             ELSE LET m == MostrarRecetas(df, FilasQue(df, buscada, 1), 1, <<>>, {})
                  IN  [ofrecidas |-> m.ofrecidas, mensajes |-> <<>>, excepcion |-> m.excepcion]

----------------------------------------------------------------------------
(* The reports run: a loaded ledger is shown by pantalla_reportes *)

MaxFilasLibro == 3

\* the day numbers of the two sale dates that occur in the stored rows
DiasEntrada == <<750000, 750031>>

Dia1 == DiasEntrada[1]
Dia2 == DiasEntrada[2]

OtroRut == <<"1", "1", ".", "1", "1", "1", ".", "1", "1", "1", "-", "1">>

EncabezadosLibro ==
    <<N_Nombre, N_Rut, N_UltimaVisita, N_Valor, N_TipoLente>> \o COLUMNAS_OPTICAS

\* a stored row: name, RUT, date of the sale, price, type of lens and the
\* nine optical cells (all empty, or only OD_SPH filled in)
FilaLibro(rutTexto, fecha, odSph) ==
    <<PyStr(<<"A", "n", "a">>), PyStr(rutTexto), fecha, Num(50), PyStr(<<"B", "i", "f", "o", "c", "a", "l">>), odSph>>
        \o [k \in 1..8 |-> NaN]

FilasLibro ==
    {FilaLibro(rt, fe, od) : rt \in {RutConocido, OtroRut},
                             fe \in {Ts(Dia1), Ts(Dia2), NaN},
                             od \in {NaN, PyStr(<<" ", "1", " ">>)}}

ArchivoLibro(fs) ==
    [existe |-> TRUE,
     mime   |-> "application/vnd.openxmlformats-officedocument.spreadsheetml.sheet",
     hoja   |-> [legible |-> TRUE,
                 cols    |-> [j \in 1..Len(EncabezadosLibro) |-> PyStr(EncabezadosLibro[j])],
                 filas   |-> fs]]

\* the ledgers main hands to the screen: what cargar_datos returns
LibroEntrada(df) ==
    \E n \in 0..MaxFilasLibro : \E fs \in [1..n -> FilasLibro], mezcla \in BOOLEAN :
        df = cargar_datos(ArchivoLibro(fs), mezcla).df

RangosEntrada ==
    {[tipo |-> "uno", desde |-> 0, hasta |-> 0]}
        \cup {[tipo |-> "par", desde |-> a, hasta |-> b] : a, b \in {Dia1, Dia2}}

FiltrosEntrada ==
    {[rango |-> g, busqueda |-> b] :
        g \in {x \in RangosEntrada : x.desde <= x.hasta},
        b \in {<<>>, <<"1", "2", ".">>, <<"a", "N">>}}

InitRep ==
    /\ pcRep = "inicio"
    /\ LibroEntrada(libro)
    /\ filtros \in FiltrosEntrada
    /\ reporte = Pendiente
    \* the other screens are idle in this run
    /\ pcRut = "reposo"
    /\ rut = Pendiente
    /\ valido = Pendiente
    /\ enmascarado = Pendiente
    /\ revalidado = Pendiente
    /\ validoCanon = Pendiente
    /\ pcCarga = "reposo"
    /\ archivo = Pendiente
    /\ carga = Pendiente
    /\ recarga = Pendiente
    /\ pcPdf = "reposo"
    /\ paciente = Pendiente
    /\ pdf = Pendiente

PantallaReportes ==
    /\ pcRep = "inicio"
    /\ \E sinFechas \in BOOLEAN :
           reporte' = pantalla_reportes(libro, filtros, sinFechas)
    /\ pcRep' = "mostrado"
    /\ UNCHANGED <<libro, filtros>>
    /\ SoloRep

NextRep == PantallaReportes

----------------------------------------------------------------------------
(* Specifications *)

Spec == InitRut /\ [][NextRut]_vars

SpecCarga == InitCarga /\ [][NextCarga]_vars

SpecPdf == InitPdf /\ [][NextPdf]_vars

SpecRep == InitRep /\ [][NextRep]_vars

----------------------------------------------------------------------------
(* RUT claims *)

\* the modulo-11 rule stated position by position: the i-th digit from the
\* right carries weight 2 + ((i - 1) mod 6)
RECURSIVE SumaPonderada(_, _)
SumaPonderada(b, i) ==
    IF i > Len(b) THEN 0
    ELSE DigitVal(b[Len(b) + 1 - i]) * (2 + ((i - 1) % 6)) + SumaPonderada(b, i + 1)

VerificadorDe(b) ==
    LET r == 11 - (SumaPonderada(b, 1) % 11)
    IN  IF r = 11 THEN "0" ELSE IF r = 10 THEN "K" ELSE DigitChar(r)

RutBienFormado(x) ==
    /\ x.t = "str"
    /\ LET tok == TokenDe(x.v)
           n   == Len(tok)
       IN  /\ n \in {8, 9}
           /\ \A i \in 1..(n - 1) : tok[i] \in Digitos
           /\ tok[n] \in Digitos \cup {"K"}
           /\ tok[n] = VerificadorDe(SubSeq(tok, 1, n - 1))

\* C1: validar_rut_completo returns True exactly when the input, with '.' and
\* '-' removed and upper-cased, is 7 or 8 digits followed by the modulo-11
\* check character of those digits; every other input yields False (a value,
\* never an exception); "12.345.678-5" is accepted.
C1_ValidaExactamente ==
    pcRut # "inicio" =>
        /\ valido = PyBool(RutBienFormado(rut))
        /\ (rut = PyStr(RutConocido) => valido = PyBool(TRUE))

C1_Testigo ==
    /\ pcRut = "validado"
    /\ rut = PyStr(RutConocido)
    /\ valido = PyBool(TRUE)

C7_SiempreEnmascara ==
    (pcRut \in {"enmascarado", "revalidado", "fin"} /\ valido = PyBool(TRUE)) =>
        /\ enmascarado.t = "str"
        /\ enmascarado # rut
        /\ CuentaDe(enmascarado.v, "*") >= 1
        /\ Len(enmascarado.v) >= 1
        /\ UpperChar(enmascarado.v[Len(enmascarado.v)]) = TokenDe(rut.v)[Len(TokenDe(rut.v))]

----------------------------------------------------------------------------
(* Load claims *)

\* the store cannot be loaded: it is missing, its content type is not an
\* accepted spreadsheet type (or cannot be determined), the sheet cannot be
\* read, or its header row holds only numbers
CargaImposible ==
    \/ ~archivo.existe
    \/ archivo.mime \notin MIME_VALIDOS
    \/ ~archivo.hoja.legible
    \/ (archivo.hoja.cols # <<>> /\ \A i \in 1..Len(archivo.hoja.cols) : archivo.hoja.cols[i].t = "num")

\* C3: cargar_datos never raises to its caller, and when the store is
\* missing, has an unaccepted content type, or cannot be read or converted,
\* it returns a ledger of zero rows and shows an error to the user.
C3_CargaNuncaFalla ==
    pcCarga \in {"cargado", "reaplicado"} =>
        /\ ~carga.propaga
        /\ (CargaImposible => (carga.df.filas = <<>> /\ carga.errores # <<>>))

C3_Testigo ==
    /\ pcCarga = "cargado"
    /\ archivo.existe
    /\ archivo.mime = "text/plain"
    /\ archivo.hoja.legible
    /\ Len(archivo.hoja.filas) >= 1
    /\ carga.df.filas = <<>>
    /\ carga.errores = <<"no es excel">>
    /\ ~carga.propaga

\* the columns the screens read from every ledger
ColumnasCanonicas ==
    {PyStr(c) : c \in Rango(columnas) \cup Rango(COLUMNAS_OPTICAS) \cup {N_Valor}}

\* C4: every ledger the load returns has every canonical column, and the
\* ledger returned for a store that is missing or cannot be read has exactly
\* the canonical columns.
C4_ColumnasCanonicas ==
    pcCarga \in {"cargado", "reaplicado"} =>
        /\ ColumnasCanonicas \subseteq Rango(carga.df.cols)
        /\ (CargaImposible => Rango(carga.df.cols) = ColumnasCanonicas)

\* C5: the reconciliation steps applied to their own output do not fail and
\* leave the columns, their order, the rows and every value unchanged.
C5_ReconciliarIdempotente ==
    pcCarga = "reaplicado" =>
        /\ recarga.errores = <<>>
        /\ recarga.df = carga.df

\* the position in the stored sheet of the column with this name, or 0
PosicionEnHoja(nombre) ==
    LET cols == archivo.hoja.cols
        S    == {j \in 1..Len(cols) : cols[j].t = "str" /\ Strip(cols[j].v) = nombre}
    IN  IF S = {} THEN 0 ELSE CHOOSE j \in S : \A k \in S : j <= k

\* a stored cell that holds neither a number nor the text of a number
NoEsNumero(c) ==
    ~(c.t = "num" \/ (c.t = "str" /\ Strip(c.v) # <<>> /\ \A i \in 1..Len(Strip(c.v)) : Strip(c.v)[i] \in Digitos))

\* a stored cell that holds neither a date nor the text of a date
NoEsFecha(c) ==
    ~(c.t = "ts" \/ (c.t = "str" /\ (DiaDeTexto(c.v) >= 0 \/ EsTextoUTC(c.v))))

\* C12: for a store that passes the signature check and holds a readable
\* table, the load does not fail and keeps every row; a Valor cell that is
\* not a number is loaded as 0 and an Ultima_visita cell that is not a date
\* is loaded as NaT.
C12_CoercionSinPerdida ==
    (pcCarga = "cargado" /\ es_excel_valido(archivo) /\ archivo.hoja.legible) =>
        LET hoja == archivo.hoja
            jv   == PosicionEnHoja(N_Valor)
            jf   == PosicionEnHoja(N_UltimaVisita)
        IN  /\ carga.errores = <<>>
            /\ Len(carga.df.filas) = Len(hoja.filas)
            /\ \A r \in 1..Len(hoja.filas) :
                  /\ (jv > 0 /\ NoEsNumero(hoja.filas[r][jv])) => Celda(carga.df, r, N_Valor) = Num(0)
                  /\ (jf > 0 /\ NoEsFecha(hoja.filas[r][jf])) => Celda(carga.df, r, N_UltimaVisita) = NaT

----------------------------------------------------------------------------
(* Receipt claims *)

\* C6: whichever path generar_pdf_receta takes, the temporary file it
\* created no longer exists when the function returns.
C6_TemporalBorrado ==
    pcPdf = "devuelto" => ~pdf.temporal

\* C10: every text taken from the row and written into the receipt is
\* written escaped.
C10_TodoEscapado ==
    pcPdf = "devuelto" =>
        \A i \in 1..Len(pdf.buffer) :
            LET d == pdf.buffer[i]
            IN  d.campo # "" =>
                    \/ d.valor = escape(str(paciente[d.campo]))
                    \/ (d.campo = "Rut" /\ d.valor = escape(enmascarar_rut(paciente.Rut).v))

----------------------------------------------------------------------------
(* Reports claims *)

FechaDe(df, r) == Celda(df, r, N_UltimaVisita)

\* row j is a later prescription of the patient of row i
MasRecienteQue(df, j, i) ==
    /\ j # i
    /\ Celda(df, j, N_Rut) = Celda(df, i, N_Rut)
    /\ FechaDe(df, j).t = "tsutc"
    /\ \/ FechaDe(df, i).t # "tsutc"
       \/ FechaDe(df, j).v > FechaDe(df, i).v
       \/ (FechaDe(df, j).v = FechaDe(df, i).v /\ j > i)

\* C8: a row offered as a receipt is the row of its RUT with the latest
\* Ultima_visita (the later row on equal dates); no older row of the same
\* RUT is offered.
C8_SoloLaUltimaReceta ==
    pcRep = "mostrado" =>
        \A k \in 1..Len(reporte.ofrecidas) :
            ~\E j \in 1..Len(libro.filas) : MasRecienteQue(libro, j, reporte.ofrecidas[k])

\* what the load leaves of a row whose prescription cells are all empty in
\* the stored sheet: an empty text in every optical column
SinReceta(df, r) ==
    \A k \in 1..Len(COLUMNAS_OPTICAS) : Celda(df, r, COLUMNAS_OPTICAS[k]) = PyStr(<<>>)

\* C11: a loaded row whose prescription fields are all empty in the store
\* has no receipt: the has-prescription test of the reports screen is false
\* for it and it is not offered a "Generar PDF" button.
C11_SinRecetaSinBoton ==
    pcRep = "mostrado" =>
        \A r \in 1..Len(libro.filas) :
            SinReceta(libro, r) =>
                /\ (\A c \in ColumnasDeReportes : Tiene(libro, c)) => ~has_optica_data(libro, r)
                /\ \A k \in 1..Len(reporte.ofrecidas) : reporte.ofrecidas[k] # r

====
